---------------------------- MODULE Spec2Model ----------------------------
(***************************************************************************)
(* A model of the gui package of xyppy-speech: the queue-backed Pipe, the  *)
(* EngineThread worker that runs the interpreter against two Pipes, the    *)
(* InputBox and Transcript widgets, and the GameApp that wires them with a *)
(* fixed-period poll.  Two threads exist: the interface thread (Tk's       *)
(* mainloop and the handlers it dispatches) and the engine worker.         *)
(*                                                                         *)
(* Text is a sequence of one-character strings, so that strip(), the       *)
(* newline normalisation and the Transcript's concatenation are computed   *)
(* character by character as the code computes them.                       *)
(***************************************************************************)
EXTENDS Naturals, Sequences, FiniteSets

\* ------------------------------------------------------------------ bounds

\* Capacity of a Pipe in the model (Pipe.__init__'s maxsize, 2048 by default).
maxsize == 2
\* Number of non-empty submissions the user makes.
MaxSubmit == 3
\* Number of fragments the engine writes to its standard output.
MaxOut == 3
\* Number of direct enqueue_line calls in SpecAPI.
MaxCalls == 3
\* Length of the texts handed to enqueue_line in SpecAPI.
MaxLen == 2

\* ------------------------------------------------------------------- text

NL == "\n"
\* The characters str.strip() removes, among those the model types.
Whitespace == {" ", NL}

\* What the user may leave in the InputBox before pressing a key: empty,
\* whitespace only, a plain word, a word wrapped in whitespace.
Inputs == { <<>>, <<" ", NL>>, <<"a">>, <<" ", "b", " ">> }

\* Fragments the interpreter writes to its standard output.
OutFrags == { <<"x">>, <<"y", NL>> }

\* Every text of at most n characters over {"a", "\n"}.
RECURSIVE TextsUpTo(_)
TextsUpTo(n) ==
    IF n = 0 THEN { <<>> }
    ELSE LET shorter == TextsUpTo(n - 1)
         IN  shorter \cup { Append(t, c) : t \in shorter, c \in {"a", NL} }

Texts == TextsUpTo(MaxLen)

\* str.lstrip(): drop leading whitespace.
RECURSIVE lstrip(_)
lstrip(s) ==
    IF s = <<>> THEN s
    ELSE IF Head(s) \in Whitespace THEN lstrip(Tail(s)) ELSE s

\* str.rstrip(): drop trailing whitespace.
RECURSIVE rstrip(_)
rstrip(s) ==
    IF s = <<>> THEN s
    ELSE IF s[Len(s)] \in Whitespace THEN rstrip(SubSeq(s, 1, Len(s) - 1)) ELSE s

\* A plausible slip: the text is taken as typed.
strip_none(s) == s

\* A plausible slip: only the leading whitespace is removed.
strip_left(s) == lstrip(s)

\* str.strip(), as InputBox._submit applies it to the box's contents.
strip(s) == rstrip(lstrip(s))

\* str.endswith("\n")
endswith_nl(s) == s # <<>> /\ s[Len(s)] = NL

\* A plausible slip: the terminator is added unconditionally.
with_newline_always(line) == line \o <<NL>>

\* EngineThread.enqueue_line's normalisation: add "\n" unless the line
\* already ends with one.
with_newline(line) == IF ~endswith_nl(line) THEN line \o <<NL>> ELSE line

\* ------------------------------------------------------------------ Pipe

Pipes == {"stdin_pipe", "stdout_pipe"}

\* A plausible slip: the queue is built unbounded (maxsize <= 0).
full_never(q) == FALSE

\* queue.Queue's test under its mutex: a bounded queue is full at maxsize.
full(q) == Len(q) >= maxsize

\* A plausible slip: the fragment is pushed at the head (a LIFO).
put_front(q, s) == <<s>> \o q

\* Pipe.write -> Queue.put once there is room: the fragment joins the tail.
put(q, s) == Append(q, s)

\* A plausible slip: the newest fragment is handed out first.
get_last(q) == q[Len(q)]

\* Pipe.readline -> Queue.get / get_nowait: the fragment at the head.
get(q) == Head(q)

\* The queue once get() has removed the head.
rest(q) == Tail(q)

\* A plausible slip: Transcript inserts at "1.0" instead of "end".
append_at_start(content, text) == text \o content

\* A plausible slip: the widget is cleared before the insert.
append_replace(content, text) == text

\* Transcript.append: insert at "end".
append(content, text) == content \o text

\* ----------------------------------------------------------------- state

VARIABLES
    queue,            \* queue[p]: the fragments held by Pipe p, head first
    written,          \* written[p]: every fragment a write() has queued in p
    removed,          \* removed[p]: every fragment a get has taken out of p
    sys_stdin,        \* the process's sys.stdin binding
    sys_stdout,       \* the process's sys.stdout binding
    eng_pc,           \* where the worker thread is
    eng_pending,      \* <<f>> while the worker waits in write(f), else <<>>
    gui_pc,           \* where the interface thread is
    gui_pending,      \* <<f>> while the interface thread waits in write(f)
    box,              \* contents of the InputBox
    history,          \* InputBox.history
    history_idx,      \* InputBox.history_idx
    on_submit_calls,  \* the arguments on_submit has been called with
    transcript,       \* contents of the Transcript
    timers            \* pending after(POLL_MS, _poll_engine) callbacks

vars == << queue, written, removed, sys_stdin, sys_stdout, eng_pc, eng_pending,
           gui_pc, gui_pending, box, history, history_idx, on_submit_calls,
           transcript, timers >>

pipeVars == << queue, written, removed >>
sysVars == << sys_stdin, sys_stdout >>
engVars == << eng_pc, eng_pending >>
boxVars == << box, history, history_idx, on_submit_calls >>

\* The state once GameApp.__init__ has returned: the worker is started and
\* has not run yet, both Pipes are empty, the widgets are empty, and one
\* poll is scheduled.
Init ==
    /\ queue = [p \in Pipes |-> <<>>]
    /\ written = [p \in Pipes |-> <<>>]
    /\ removed = [p \in Pipes |-> <<>>]
    /\ sys_stdin = "original"
    /\ sys_stdout = "original"
    /\ eng_pc = "run"
    /\ eng_pending = <<>>
    /\ gui_pc = "mainloop"
    /\ gui_pending = <<>>
    /\ box = <<>>
    /\ history = <<>>
    /\ history_idx = 0
    /\ on_submit_calls = <<>>
    /\ transcript = <<>>
    /\ timers = 1

\* ------------------------------------------------- registering a write/get

\* Pipe p after write(s) has queued s.
Queued(p, s) ==
    /\ queue' = [queue EXCEPT ![p] = put(@, s)]
    /\ written' = [written EXCEPT ![p] = Append(@, s)]
    /\ removed' = removed

\* Pipe p after a get has taken its head.
Taken(p) ==
    /\ queue' = [queue EXCEPT ![p] = rest(@)]
    /\ removed' = [removed EXCEPT ![p] = Append(@, get(queue[p]))]
    /\ written' = written

\* ------------------------------------------------------- interface thread

\* The user edits the InputBox (Tk's own key bindings): its contents become t.
Type(t) ==
    /\ gui_pc = "mainloop"
    /\ box # t
    /\ box' = t
    /\ UNCHANGED << pipeVars, sysVars, engVars, gui_pc, gui_pending, history,
                    history_idx, on_submit_calls, transcript, timers >>

\* Tk's mainloop takes a key event the InputBox has a binding for
\* (<Return>, <Up>, <Down>) and is about to run its handler.
Dispatch(key) ==
    /\ gui_pc = "mainloop"
    /\ key = "Return" /\ strip(box) # <<>> => Len(history) < MaxSubmit
    /\ gui_pc' = key
    /\ UNCHANGED << pipeVars, sysVars, engVars, gui_pending, boxVars,
                    transcript, timers >>

\* A plausible slip: the line is written as given, without a terminator.
enqueue_line_raw(line) ==
    IF full(queue["stdin_pipe"])
    THEN /\ gui_pc' = "put_wait"
         /\ gui_pending' = <<line>>
         /\ UNCHANGED pipeVars
    ELSE /\ gui_pc' = "mainloop"
         /\ gui_pending' = <<>>
         /\ Queued("stdin_pipe", line)

\* EngineThread.enqueue_line on the interface thread: normalise, then
\* stdin_pipe.write(line), which returns at once when the Pipe has room and
\* otherwise leaves the thread waiting inside put().
enqueue_line(line) ==
    LET l == with_newline(line)
    IN  IF full(queue["stdin_pipe"])
        THEN /\ gui_pc' = "put_wait"
             /\ gui_pending' = <<l>>
             /\ UNCHANGED pipeVars
        ELSE /\ gui_pc' = "mainloop"
             /\ gui_pending' = <<>>
             /\ Queued("stdin_pipe", l)

\* GameApp._on_command
on_command(text) == enqueue_line(text)

\* InputBox._submit, the <Return> handler.
submit ==
    /\ gui_pc = "Return"
    /\ LET text == strip(box)
       IN  /\ box' = <<>>
           /\ IF text # <<>>
              THEN /\ history' = Append(history, text)
                   /\ history_idx' = Len(history')
                   /\ on_submit_calls' = Append(on_submit_calls, text)
                   /\ on_command(text)
              ELSE /\ gui_pc' = "mainloop"
                   /\ UNCHANGED << history, history_idx, on_submit_calls,
                                   gui_pending, pipeVars >>
    /\ UNCHANGED << sysVars, engVars, transcript, timers >>

\* The interface thread's write() resumes once the inbound Pipe has room.
GuiPutResume ==
    /\ gui_pc = "put_wait"
    /\ ~full(queue["stdin_pipe"])
    /\ Queued("stdin_pipe", gui_pending[1])
    /\ gui_pending' = <<>>
    /\ gui_pc' = "mainloop"
    /\ UNCHANGED << sysVars, engVars, boxVars, transcript, timers >>

\* InputBox._show_history: the box shows the entry under the cursor (Python
\* counts entries from 0, a TLA+ sequence from 1), or nothing when the cursor
\* is one past the end.
show_history(idx) ==
    box' = IF idx < Len(history) THEN history[idx + 1] ELSE <<>>

\* max(0, i - 1) over the naturals
prev_idx(i) == IF i = 0 THEN 0 ELSE i - 1

\* A plausible slip: the cursor stops at the last entry and never reaches the
\* empty position one past the end.
next_idx_last(i) == IF i + 1 >= Len(history) THEN Len(history) - 1 ELSE i + 1

\* A plausible slip: the cursor is not clamped.
next_idx_unclamped(i) == i + 1

\* min(len(history), i + 1)
next_idx(i) == IF i + 1 > Len(history) THEN Len(history) ELSE i + 1

\* A plausible slip: the handler does not test for an empty history.
hist_prev_unguarded ==
    /\ gui_pc = "Up"
    /\ history_idx' = prev_idx(history_idx)
    /\ show_history(history_idx')
    /\ gui_pc' = "mainloop"
    /\ UNCHANGED << pipeVars, sysVars, engVars, gui_pending, history,
                    on_submit_calls, transcript, timers >>

\* InputBox._hist_prev, the <Up> handler.
hist_prev ==
    /\ gui_pc = "Up"
    /\ IF history # <<>>
       THEN /\ history_idx' = prev_idx(history_idx)
            /\ show_history(history_idx')
       ELSE UNCHANGED << history_idx, box >>
    /\ gui_pc' = "mainloop"
    /\ UNCHANGED << pipeVars, sysVars, engVars, gui_pending, history,
                    on_submit_calls, transcript, timers >>

\* InputBox._hist_next, the <Down> handler.
hist_next ==
    /\ gui_pc = "Down"
    /\ IF history # <<>>
       THEN /\ history_idx' = next_idx(history_idx)
            /\ show_history(history_idx')
       ELSE UNCHANGED << history_idx, box >>
    /\ gui_pc' = "mainloop"
    /\ UNCHANGED << pipeVars, sysVars, engVars, gui_pending, history,
                    on_submit_calls, transcript, timers >>

\* A scheduled after() callback comes due: _poll_engine starts.
PollFire ==
    /\ gui_pc = "mainloop"
    /\ timers > 0
    /\ timers' = timers - 1
    /\ gui_pc' = "poll"
    /\ UNCHANGED << pipeVars, sysVars, engVars, gui_pending, boxVars, transcript >>

\* One turn of _poll_engine's loop: get_nowait() hands out a fragment and
\* the Transcript appends it.
PollGet ==
    /\ gui_pc = "poll"
    /\ queue["stdout_pipe"] # <<>>
    /\ transcript' = append(transcript, get(queue["stdout_pipe"]))
    /\ Taken("stdout_pipe")
    /\ UNCHANGED << sysVars, engVars, gui_pc, gui_pending, boxVars, timers >>

\* A plausible slip: after() sits inside the try block, so the queue.Empty
\* that ends the loop skips it and no further poll is scheduled.
PollEmpty_no_reschedule ==
    /\ gui_pc = "poll"
    /\ queue["stdout_pipe"] = <<>>
    /\ gui_pc' = "mainloop"
    /\ UNCHANGED << pipeVars, sysVars, engVars, gui_pending, boxVars, transcript,
                    timers >>

\* get_nowait() raises queue.Empty: the loop ends, the exception is
\* swallowed and the next poll is scheduled.
PollEmpty ==
    /\ gui_pc = "poll"
    /\ queue["stdout_pipe"] = <<>>
    /\ timers' = timers + 1
    /\ gui_pc' = "mainloop"
    /\ UNCHANGED << pipeVars, sysVars, engVars, gui_pending, boxVars, transcript >>

GuiNext ==
    \/ \E t \in Inputs : Type(t)
    \/ \E key \in {"Return", "Up", "Down"} : Dispatch(key)
    \/ submit
    \/ GuiPutResume
    \/ hist_prev
    \/ hist_next
    \/ PollFire
    \/ PollGet
    \/ PollEmpty

\* ----------------------------------------------------------- engine worker

\* EngineThread.run, up to the call of the interpreter's main(): sys.stdin
\* and sys.stdout are module attributes of sys, one binding for the whole
\* process, and the two assignments rebind them.
RunSwapStdio ==
    /\ eng_pc = "run"
    /\ sys_stdin' = "stdin_pipe"
    /\ sys_stdout' = "stdout_pipe"
    /\ eng_pc' = "main"
    /\ UNCHANGED << pipeVars, eng_pending, gui_pc, gui_pending, boxVars,
                    transcript, timers >>

\* The interpreter writes fragment f to sys.stdout, the outbound Pipe: the
\* write returns at once when the Pipe has room and otherwise leaves the
\* worker waiting inside put().
EngineWrite(f) ==
    /\ eng_pc = "main"
    /\ Len(written[sys_stdout]) < MaxOut
    /\ IF full(queue[sys_stdout])
       THEN /\ eng_pc' = "put_wait"
            /\ eng_pending' = <<f>>
            /\ UNCHANGED pipeVars
       ELSE /\ Queued(sys_stdout, f)
            /\ UNCHANGED engVars
    /\ UNCHANGED << sysVars, gui_pc, gui_pending, boxVars, transcript, timers >>

\* The worker's write() resumes once the outbound Pipe has room.
EnginePutResume ==
    /\ eng_pc = "put_wait"
    /\ ~full(queue[sys_stdout])
    /\ Queued(sys_stdout, eng_pending[1])
    /\ eng_pending' = <<>>
    /\ eng_pc' = "main"
    /\ UNCHANGED << sysVars, gui_pc, gui_pending, boxVars, transcript, timers >>

\* A plausible slip: readline() is built on get_nowait() and hands out "" when
\* the Pipe is empty, which a reader takes for end of file.
EngineRead_eof ==
    /\ eng_pc = "main"
    /\ IF queue[sys_stdin] = <<>>
       THEN /\ removed' = [removed EXCEPT ![sys_stdin] = Append(@, <<>>)]
            /\ UNCHANGED << queue, written >>
       ELSE Taken(sys_stdin)
    /\ eng_pc' = "main"
    /\ UNCHANGED << sysVars, eng_pending, gui_pc, gui_pending, boxVars,
                    transcript, timers >>

\* The interpreter reads a line from sys.stdin, the inbound Pipe:
\* readline() returns the head at once when there is one and otherwise
\* leaves the worker waiting inside get().
EngineRead ==
    /\ eng_pc = "main"
    /\ IF queue[sys_stdin] = <<>>
       THEN /\ eng_pc' = "get_wait"
            /\ UNCHANGED pipeVars
       ELSE /\ Taken(sys_stdin)
            /\ eng_pc' = "main"
    /\ UNCHANGED << sysVars, eng_pending, gui_pc, gui_pending, boxVars,
                    transcript, timers >>

\* The worker's readline() resumes once the inbound Pipe holds a fragment.
EngineGetResume ==
    /\ eng_pc = "get_wait"
    /\ queue[sys_stdin] # <<>>
    /\ Taken(sys_stdin)
    /\ eng_pc' = "main"
    /\ UNCHANGED << sysVars, eng_pending, gui_pc, gui_pending, boxVars,
                    transcript, timers >>

\* The import of xyppy fails, or main() raises or returns: run() ends and
\* with it the worker thread.  Nothing restarts it.
EngineExit ==
    /\ eng_pc = "main"
    /\ eng_pc' = "ended"
    /\ UNCHANGED << pipeVars, sysVars, eng_pending, gui_pc, gui_pending,
                    boxVars, transcript, timers >>

EngineNext ==
    \/ RunSwapStdio
    \/ \E f \in OutFrags : EngineWrite(f)
    \/ EnginePutResume
    \/ EngineRead
    \/ EngineGetResume
    \/ EngineExit

\* ------------------------------------------------------ the application

Next == GuiNext \/ EngineNext

Spec == Init /\ [][Next]_vars

\* What the scheduler and Tk guarantee: a due timer callback runs whenever
\* the mainloop keeps coming back for events (key events cannot starve it,
\* hence strong fairness), a running handler goes on, a blocked put()/get()
\* resumes once its condition holds, the started thread runs.  Nothing
\* obliges the user to press a key, or the interpreter to read, write or stop.
Fairness ==
    /\ SF_vars(PollFire) /\ WF_vars(PollGet) /\ WF_vars(PollEmpty)
    /\ WF_vars(submit) /\ WF_vars(hist_prev) /\ WF_vars(hist_next)
    /\ WF_vars(GuiPutResume)
    /\ WF_vars(RunSwapStdio)
    /\ WF_vars(EnginePutResume) /\ WF_vars(EngineGetResume)

FairSpec == Spec /\ Fairness

\* --------------------------------------- an interpreter that never stops writing

\* The interpreter writes the empty fragment to sys.stdout, as every
\* print(..., end="") does, any number of times; the write completes once
\* the outbound Pipe has room.  The written/removed records are not kept
\* here: they are not state of the program and would grow without bound.
FloodWrite ==
    /\ eng_pc = "main"
    /\ ~full(queue[sys_stdout])
    /\ queue' = [queue EXCEPT ![sys_stdout] = put(@, <<>>)]
    /\ UNCHANGED << written, removed, sysVars, engVars, gui_pc, gui_pending,
                    boxVars, transcript, timers >>

\* One turn of _poll_engine's loop, as PollGet, without the records.
FloodPollGet ==
    /\ gui_pc = "poll"
    /\ queue["stdout_pipe"] # <<>>
    /\ transcript' = append(transcript, get(queue["stdout_pipe"]))
    /\ queue' = [queue EXCEPT !["stdout_pipe"] = rest(@)]
    /\ UNCHANGED << written, removed, sysVars, engVars, gui_pc, gui_pending,
                    boxVars, timers >>

FloodNext ==
    \/ \E t \in Inputs : Type(t)
    \/ \E key \in {"Return", "Up", "Down"} : Dispatch(key)
    \/ submit
    \/ GuiPutResume
    \/ hist_prev
    \/ hist_next
    \/ PollFire
    \/ FloodPollGet
    \/ PollEmpty
    \/ RunSwapStdio
    \/ FloodWrite
    \/ EngineRead
    \/ EngineGetResume
    \/ EngineExit

\* As Fairness; the running _poll_engine takes its next step, whichever of
\* the two the state of the Pipe makes it.
FloodFairness ==
    /\ SF_vars(PollFire) /\ WF_vars(FloodPollGet \/ PollEmpty)
    /\ WF_vars(submit) /\ WF_vars(hist_prev) /\ WF_vars(hist_next)
    /\ WF_vars(GuiPutResume)
    /\ WF_vars(RunSwapStdio)
    /\ WF_vars(EngineGetResume)

FloodSpec == Init /\ [][FloodNext]_vars /\ FloodFairness

\* ------------------------------------------- enqueue_line as a public method

\* Any caller hands enqueue_line an arbitrary text t, here through the
\* on_submit callback (_on_command) on the interface thread; the argument is
\* recorded.
call_enqueue_line(t) ==
    /\ gui_pc = "mainloop"
    /\ Len(written["stdin_pipe"]) < MaxCalls
    /\ on_submit_calls' = Append(on_submit_calls, t)
    /\ on_command(t)
    /\ UNCHANGED << sysVars, engVars, box, history, history_idx, transcript,
                    timers >>

NextAPI ==
    \/ \E t \in Texts : call_enqueue_line(t)
    \/ GuiPutResume
    \/ RunSwapStdio
    \/ EngineRead
    \/ EngineGetResume

SpecAPI == Init /\ [][NextAPI]_vars

\* ------------------------------------------------- vocabulary of the claims

RECURSIVE Concat(_)
\* The fragments of a sequence joined into one text.
Concat(frags) ==
    IF frags = <<>> THEN <<>> ELSE Head(frags) \o Concat(Tail(frags))

IsPrefix(a, b) == Len(a) <= Len(b) /\ SubSeq(b, 1, Len(a)) = a

\* Positions of the characters of s that are not whitespace.
NonBlank(s) == { i \in 1..Len(s) : s[i] \notin Whitespace }

\* s is empty or whitespace only.
Blank(s) == NonBlank(s) = {}

\* s without its leading and trailing whitespace, stated by positions: from
\* the first character that is not whitespace to the last one.
Trimmed(s) ==
    IF Blank(s) THEN <<>>
    ELSE LET first == CHOOSE i \in NonBlank(s) : \A j \in NonBlank(s) : i <= j
             last == CHOOSE i \in NonBlank(s) : \A j \in NonBlank(s) : j <= i
         IN  SubSeq(s, first, last)

\* The number of "\n" a text ends with.
RECURSIVE TrailingNL(_)
TrailingNL(s) ==
    IF s = <<>> \/ s[Len(s)] # NL THEN 0
    ELSE 1 + TrailingNL(SubSeq(s, 1, Len(s) - 1))

\* The fragment a writer blocked on Pipe p is holding, as <<f>>, else <<>>.
\* The interface thread writes only to stdin_pipe, the worker to stdout_pipe.
Pending(p) == IF p = "stdin_pipe" THEN gui_pending ELSE eng_pending

\* The <Return> handler runs in this step.
SubmitStep == gui_pc = "Return" /\ gui_pc' # "Return"

\* ------------------------------------------------------------------ claims

\* C1: in every Pipe the fragments removed so far, followed by the fragments
\* still queued, are exactly the fragments written, in the order written:
\* nothing is lost, duplicated or reordered, whether the consumer is the
\* worker's blocking readline() or the poll's get_nowait().
C1_Fifo ==
    \A p \in Pipes : written[p] = removed[p] \o queue[p]

\* C1 witness: both consumers have removed two fragments, the poll's two
\* differ (so their order shows), and fragments are still queued.
C1_Witness ==
    /\ Len(removed["stdin_pipe"]) >= 2
    /\ Len(removed["stdout_pipe"]) >= 2
    /\ removed["stdout_pipe"][1] # removed["stdout_pipe"][2]
    /\ removed["stdin_pipe"][1] # removed["stdin_pipe"][2]
    /\ queue["stdout_pipe"] # <<>>
    /\ queue["stdin_pipe"] # <<>>

\* C2: the interface thread still sees the original standard streams after
\* the worker has run its substitution.  There is one sys.stdin and one
\* sys.stdout binding for the process, so what the interface thread sees is
\* what the worker has bound.
C2_StdioScopedToWorker ==
    sys_stdin = "original" /\ sys_stdout = "original"

\* C3: no reachable state has the interface thread waiting on a full inbound
\* Pipe while the worker waits on a full outbound Pipe.
C3_NoMutualWait ==
    ~ ( /\ gui_pc = "put_wait" /\ full(queue["stdin_pipe"])
        /\ eng_pc = "put_wait" /\ full(queue["stdout_pipe"]) )

\* C4: every fragment enqueue_line has written to the inbound Pipe ends with
\* exactly one line terminator, whatever text it was given.
C4_ExactlyOneTerminator ==
    \A i \in 1..Len(written["stdin_pipe"]) :
        TrailingNL(written["stdin_pipe"][i]) = 1

\* C5: the Transcript's content is the concatenation, in written order, of a
\* prefix of the fragments written to the outbound Pipe, namely of the
\* fragments the poll has dequeued.
C5_TranscriptIsPrefix ==
    /\ \E k \in 0..Len(written["stdout_pipe"]) :
          transcript = Concat(SubSeq(written["stdout_pipe"], 1, k))
    /\ transcript = Concat(removed["stdout_pipe"])

\* C5 witness: the Transcript shows two different fragments and a third is
\* still queued.
C5_Witness ==
    /\ Len(removed["stdout_pipe"]) = 2
    /\ removed["stdout_pipe"][1] # removed["stdout_pipe"][2]
    /\ transcript = removed["stdout_pipe"][1] \o removed["stdout_pipe"][2]
    /\ Len(queue["stdout_pipe"]) = 1

\* C6: every fragment written to the outbound Pipe is eventually part of the
\* Transcript: once k fragments are written, the Transcript eventually
\* starts with the first k of them.
C6_EventuallyShown ==
    \A k \in 1..MaxOut :
        (Len(written["stdout_pipe"]) >= k)
            ~> ( /\ Len(written["stdout_pipe"]) >= k
                 /\ IsPrefix(Concat(SubSeq(written["stdout_pipe"], 1, k)),
                             transcript) )

\* C7: a Pipe never holds more than maxsize fragments; a full Pipe changes
\* only by a consumer removing its head; a writer blocked on a full Pipe
\* keeps its fragment, and when its write completes the fragment is the new
\* tail and everything queued before is still there.
C7_Backpressure ==
    [][ \A p \in Pipes :
          /\ Len(queue[p]) <= maxsize /\ Len(queue'[p]) <= maxsize
          /\ Len(queue[p]) = maxsize =>
                queue'[p] = queue[p] \/ queue'[p] = Tail(queue[p])
          /\ Pending(p) # <<>> /\ Len(queue[p]) = maxsize =>
                Pending(p)' = Pending(p)
          /\ Pending(p) # <<>> /\ Pending(p)' # Pending(p) =>
                /\ Pending(p)' = <<>>
                /\ queue'[p] = Append(queue[p], Pending(p)[1])
      ]_vars

\* C7 witness: the outbound Pipe is at capacity and the worker waits in
\* write() with one more fragment, different from the queued ones, which has
\* not been queued or recorded as written.
C7_Witness ==
    /\ Len(queue["stdout_pipe"]) = maxsize
    /\ eng_pc = "put_wait"
    /\ Len(eng_pending) = 1
    /\ \A i \in 1..maxsize : queue["stdout_pipe"][i] # eng_pending[1]
    /\ Len(written["stdout_pipe"]) = Len(removed["stdout_pipe"]) + maxsize

\* C8: once the worker has ended, a submission still returns control to the
\* interface thread: the interface thread is not left waiting in write() on
\* an inbound Pipe that nothing will ever empty.
C8_SubmitReturnsAfterExit ==
    eng_pc = "ended" => ~ (gui_pc = "put_wait" /\ full(queue["stdin_pipe"]))

\* C9: <Return> on an empty or whitespace-only box leaves the history
\* unchanged, does not call on_submit, writes nothing to the inbound Pipe and
\* clears the box.
C9_BlankSubmit ==
    [][ SubmitStep /\ Blank(box) =>
          /\ history' = history
          /\ on_submit_calls' = on_submit_calls
          /\ written'["stdin_pipe"] = written["stdin_pipe"]
          /\ queue'["stdin_pipe"] = queue["stdin_pipe"]
          /\ gui_pending' = <<>>
          /\ box' = <<>>
      ]_vars

\* C9 witness: <Return> has been pressed on a whitespace-only box, with a
\* history to preserve.
C9_Witness ==
    /\ gui_pc = "Return"
    /\ box # <<>> /\ Blank(box)
    /\ history # <<>>

\* C10: <Return> on a box with something other than whitespace appends the
\* trimmed text as the last history entry, puts the cursor one past the end,
\* clears the box and calls on_submit once, with the trimmed text.
C10_Submit ==
    [][ SubmitStep /\ ~Blank(box) =>
          /\ history' = Append(history, Trimmed(box))
          /\ history_idx' = Len(history) + 1
          /\ box' = <<>>
          /\ on_submit_calls' = Append(on_submit_calls, Trimmed(box))
      ]_vars

\* C10 witness: the text " b " was submitted after another one: "b" is the
\* last history entry and the last argument of on_submit, the cursor is one
\* past the end and the box is empty.
C10_Witness ==
    /\ Len(history) >= 2
    /\ history[Len(history)] = <<"b">>
    /\ history_idx = Len(history)
    /\ box = <<>>
    /\ on_submit_calls = history

\* The <Up> handler runs in this step.
UpStep == gui_pc = "Up" /\ gui_pc' # "Up"

\* The <Down> handler runs in this step.
DownStep == gui_pc = "Down" /\ gui_pc' # "Down"

\* What the box shows for cursor i: entry i counted from 0, or nothing one
\* past the end.
Shown(i) == IF i < Len(history) THEN history[i + 1] ELSE <<>>

\* C11: with a non-empty history <Up> moves the cursor to max(0, cursor - 1)
\* and <Down> to min(len(history), cursor + 1), and after either key the box
\* shows the entry under the cursor, or nothing one past the end.
C11_Navigation ==
    [][ /\ UpStep /\ history # <<>> =>
              /\ history_idx' = (IF history_idx = 0 THEN 0 ELSE history_idx - 1)
              /\ box' = Shown(history_idx')
        /\ DownStep /\ history # <<>> =>
              /\ history_idx' = (IF history_idx + 1 <= Len(history)
                                 THEN history_idx + 1 ELSE Len(history))
              /\ box' = Shown(history_idx')
      ]_vars

\* C11 witness: after "a" then " b " were submitted and <Up> pressed until
\* the first entry, <Down> has just been pressed: the cursor is at 0 and the
\* box shows "a", the handler being about to show "b".
C11_Witness ==
    /\ history = << <<"a">>, <<"b">> >>
    /\ history_idx = 0
    /\ box = <<"a">>
    /\ gui_pc = "Down"

\* C12: the history cursor is always within 0..len(history).
C12_CursorInRange ==
    history_idx \in 0..Len(history)

\* C12 witness: navigation has left the cursor strictly inside a history of
\* three entries, the box showing the entry under it.
C12_Witness ==
    /\ Len(history) = 3
    /\ history_idx = 1
    /\ box = history[2]
    /\ gui_pc = "mainloop"

\* C13: a poll tick that finds the outbound Pipe empty does not wait (the
\* interface thread can take its next step), appends nothing to the
\* Transcript, takes nothing out of the Pipe, and ends in the mainloop with
\* one more poll scheduled.
C13_EmptyPoll ==
    /\ [] ( gui_pc = "poll" /\ queue["stdout_pipe"] = <<>> => ENABLED GuiNext )
    /\ [][ gui_pc = "poll" /\ queue["stdout_pipe"] = <<>> /\ gui_pc' # gui_pc =>
             /\ transcript' = transcript
             /\ removed' = removed
             /\ gui_pc' = "mainloop"
             /\ timers' = timers + 1
         ]_vars

\* C13 witness: a poll tick is running, nothing has ever been written to the
\* outbound Pipe, and no other poll is scheduled.
C13_Witness ==
    /\ gui_pc = "poll"
    /\ written["stdout_pipe"] = <<>>
    /\ queue["stdout_pipe"] = <<>>
    /\ timers = 0

\* C14: for a text t that does not end with "\n", enqueue_line(t) and
\* enqueue_line(t + "\n") write the same single fragment t + "\n": the i-th
\* fragment written is the i-th argument plus "\n" when the argument ends
\* with no terminator and the argument itself when it ends with exactly one;
\* and a blocking read hands out exactly the fragments written, in order.
C14_NewlineIdempotent ==
    /\ Len(written["stdin_pipe"]) + Len(gui_pending) = Len(on_submit_calls)
    /\ \A i \in 1..Len(written["stdin_pipe"]) :
          LET t == on_submit_calls[i]
              w == written["stdin_pipe"][i]
          IN  /\ TrailingNL(t) = 0 => w = t \o <<NL>>
              /\ TrailingNL(t) = 1 => w = t
    /\ \A i \in 1..Len(removed["stdin_pipe"]) :
          removed["stdin_pipe"][i] = written["stdin_pipe"][i]

\* C14 witness: enqueue_line("a") then enqueue_line("a\n") were called and
\* the worker has read two identical fragments "a\n".
C14_Witness ==
    /\ Len(on_submit_calls) >= 2
    /\ on_submit_calls[1] = <<"a">>
    /\ on_submit_calls[2] = <<"a", NL>>
    /\ removed["stdin_pipe"] = << <<"a", NL>>, <<"a", NL>> >>

\* C15: Transcript.append(text) turns the content c into c followed by text:
\* a step that dequeues a fragment for the Transcript leaves it with the old
\* content followed by that fragment, and in every step the old content is
\* an unaltered prefix of the new one.
C15_AppendOnly ==
    [][ /\ transcript' = transcript \/ IsPrefix(transcript, transcript')
        /\ removed'["stdout_pipe"] # removed["stdout_pipe"] =>
              transcript' = transcript \o Head(queue["stdout_pipe"])
        /\ removed'["stdout_pipe"] = removed["stdout_pipe"] =>
              transcript' = transcript
      ]_vars

\* C15 witness: three appends have happened, the last fragment differing
\* from the first, and the Transcript is the three fragments in a row.
C15_Witness ==
    /\ Len(removed["stdout_pipe"]) = 3
    /\ removed["stdout_pipe"][1] # removed["stdout_pipe"][3]
    /\ transcript = removed["stdout_pipe"][1] \o removed["stdout_pipe"][2]
                        \o removed["stdout_pipe"][3]

\* C16: readline() on the inbound Pipe returns only a fragment a writer has
\* queued.  A reader waiting on an empty Pipe goes on waiting and is handed
\* nothing; whenever the reader is handed something, the Pipe was not empty,
\* what it is handed is the head, and exactly that one fragment leaves the
\* Pipe; a waiting reader that returns has been handed a fragment.
C16_BlockingRead ==
    [][ /\ eng_pc = "get_wait" /\ queue["stdin_pipe"] = <<>> =>
              /\ eng_pc' = "get_wait"
              /\ removed'["stdin_pipe"] = removed["stdin_pipe"]
        /\ removed'["stdin_pipe"] # removed["stdin_pipe"] =>
              /\ queue["stdin_pipe"] # <<>>
              /\ removed'["stdin_pipe"] =
                    Append(removed["stdin_pipe"], Head(queue["stdin_pipe"]))
              /\ queue'["stdin_pipe"] = Tail(queue["stdin_pipe"])
              /\ Head(queue["stdin_pipe"]) # <<>>
        /\ eng_pc = "get_wait" /\ eng_pc' # "get_wait" =>
              /\ eng_pc' = "main"
              /\ Len(removed'["stdin_pipe"]) = Len(removed["stdin_pipe"]) + 1
        /\ eng_pc = "main" /\ eng_pc' = "get_wait" =>
              queue["stdin_pipe"] = <<>> /\ UNCHANGED pipeVars
      ]_vars

\* C16 witness: the worker waits in readline(), it has been handed a fragment
\* before, and a writer has just queued the fragment it is waiting for.
C16_Witness ==
    /\ eng_pc = "get_wait"
    /\ Len(queue["stdin_pipe"]) = 1
    /\ Len(removed["stdin_pipe"]) = 1
    /\ queue["stdin_pipe"][1] # removed["stdin_pipe"][1]

\* The fragments handed to stdin_pipe.write so far: those queued, then the
\* one the interface thread is still inside write() with, if any.
Forwarded == written["stdin_pipe"] \o gui_pending

\* C17: what has been forwarded to the inbound Pipe is, entry for entry, the
\* non-empty stripped submissions in submission order, each followed by
\* exactly one "\n" (one fragment per submission, nothing else), and what
\* the worker has read so far followed by what is queued is the written part
\* of it, in that order.
C17_SubmissionsForwarded ==
    /\ Len(Forwarded) = Len(history)
    /\ \A i \in 1..Len(history) :
          /\ ~Blank(history[i])
          /\ Forwarded[i] = history[i] \o <<NL>>
          /\ TrailingNL(Forwarded[i]) = 1
    /\ removed["stdin_pipe"] \o queue["stdin_pipe"]
          = SubSeq(Forwarded, 1, Len(written["stdin_pipe"]))
    /\ on_submit_calls = history

\* C17 witness: three submissions, "a" and "b" among them; the worker has
\* read the first and the other two are queued for it.
C17_Witness ==
    /\ Len(history) = 3
    /\ history[1] # history[2]
    /\ removed["stdin_pipe"] = << history[1] \o <<NL>> >>
    /\ queue["stdin_pipe"] = << history[2] \o <<NL>>, history[3] \o <<NL>> >>
    /\ gui_pc = "mainloop"

\* C18: there is always exactly one poll tick pending or running, and every
\* tick that has started ends, back in the mainloop with the next tick
\* scheduled.
C18_TickTerminates ==
    /\ [] ( timers = IF gui_pc = "poll" THEN 0 ELSE 1 )
    /\ (gui_pc = "poll") ~> (gui_pc = "mainloop" /\ timers = 1)

\* C19: the history is append-only.  Only the <Return> handler changes it,
\* and then by adding one entry after the unchanged earlier ones; <Up> and
\* <Down> never change it, and with an empty history they change neither
\* the cursor nor the box.
C19_HistoryAppendOnly ==
    [][ /\ history' # history =>
              /\ SubmitStep
              /\ Len(history') = Len(history) + 1
              /\ SubSeq(history', 1, Len(history)) = history
        /\ UpStep \/ DownStep => history' = history
        /\ (UpStep \/ DownStep) /\ history = <<>> =>
              history_idx' = history_idx /\ box' = box
      ]_vars

\* C19 witness: <Up> has been pressed with an empty history and a box that
\* holds typed text.
C19_Witness ==
    /\ gui_pc = "Up"
    /\ history = <<>>
    /\ box = <<"a">>

=============================================================================
